---- MODULE Spec2Model ----
\* Quota accounting of markdown-publisher: the quotas / operations / documents
\* tables, the quota service (app/utils/quota.ts) and the request handlers
\* that call it (home loader, document loader, statistics, publish action).
\* Every awaited store or collaborator call is one atomic step of a request;
\* requests interleave freely between their steps.
EXTENDS Integers, Sequences, FiniteSets, TLC

\* ---------------------------------------------------------------- constants
FREE_QUOTA == 50
QUOTA_RESET_HOURS == 24

\* ------------------------------------------------------------------- bounds
NumIPs == 1           \* client identities
MaxCount == 1         \* largest operationCount passed to consumeQuota
TickHours == 12       \* hours the clock advances in its one step
MaxCalls == 52        \* sequential consumeQuota calls in SpecSeq

\* Two execution contexts, each handling one request at a time.
Reqs == {1, 2}
NumReqs == Cardinality(Reqs)
IPs == 1..NumIPs
StartHour == QUOTA_RESET_HOURS
MaxNow == StartHour + TickHours

VARIABLES
    quotas,       \* quotas table: ip_address -> row, or NoQuota
    operations,   \* operations table: the set of its rows
    documents,    \* ids of the rows of the documents table
    now,          \* wall clock, in hours
    req,          \* per request: position in its handler and its locals
    ret,          \* the response returned last, with what its request did
    calls,        \* calls the sequential client has completed
    threw         \* history, kept in SpecPub only: the collaborator calls
                  \* of the publish request that threw (and were logged)

vars == <<quotas, operations, documents, now, req, ret, calls, threw>>

NoQuota == [remaining |-> -1, lastReset |-> -1]
NoInfo == [remaining |-> -1, isNewUser |-> FALSE]
NoDoc == 0
NoStats == [operationsToday |-> -1, usagePercentage |-> -1]

\* A request's locals: t is checkQuota's `now`, pre the remaining_operations
\* its SELECT read (-1: no row), info the QuotaInfo checkQuota returned,
\* rejected / unsafe what the limiter and the moderation answered,
\* refunds the refund UPDATEs it applied, stats what getUsageStats derived,
\* conflict whether its INSERT INTO quotas met an existing row.
IdleReq ==
    [pc |-> "idle", kind |-> "none", ip |-> 0, count |-> 0,
     t |-> -1, pre |-> -1, info |-> NoInfo, result |-> "none",
     rejected |-> FALSE, unsafe |-> FALSE, refunds |-> 0, stats |-> NoStats,
     conflict |-> FALSE]

DoneReq == [IdleReq EXCEPT !.pc = "done"]

\* What a response shows of the document and of the caller's identity:
\* the document loader's { document }, the statistics endpoint's ip and
\* quota.ip (texts, as sequences of character codes).
NoBody == [document |-> NoDoc, ip |-> <<>>, quotaIp |-> <<>>]

NoRet == [by |-> 0, kind |-> "none", ip |-> 0, count |-> 0,
          result |-> "none", quota |-> NoInfo,
          rejected |-> FALSE, unsafe |-> FALSE, refunds |-> 0,
          stats |-> NoStats, conflict |-> FALSE, body |-> NoBody]

\* Requests are numbered in their order of arrival; the number also serves
\* as the id of the operations row and of the document the request inserts.
RequestId(r) == calls * NumReqs + r

\* ------------------------------------------------------------- quota.ts
\* Faulty variant of NewUserInfo: the create path reports an existing user.
NewUserInfo_NotNew == [remaining |-> FREE_QUOTA, isNewUser |-> FALSE]

\* QuotaInfo returned by checkQuota on its three return paths
\* (fields remaining and isNewUser; ip, total and resetTime are not modelled).
NewUserInfo == [remaining |-> FREE_QUOTA, isNewUser |-> TRUE]

ResetInfo == [remaining |-> FREE_QUOTA, isNewUser |-> FALSE]

CurrentInfo(existing) ==
    [remaining |-> existing.remaining, isNewUser |-> FALSE]

hoursSinceReset(t, existing) == t - existing.lastReset

\* Faulty variant of WindowExpired: a window of exactly 24 hours is not yet over.
WindowExpired_Strict(t, existing) ==
    hoursSinceReset(t, existing) > QUOTA_RESET_HOURS

WindowExpired(t, existing) == hoursSinceReset(t, existing) >= QUOTA_RESET_HOURS

\* Faulty variant of Insufficient: the last unit cannot be spent.
Insufficient_OffByOne(info, operationCount) == info.remaining <= operationCount

\* consumeQuota's guard and the value it writes.
Insufficient(info, operationCount) == info.remaining < operationCount

newRemaining(q) == q.info.remaining - q.count

\* The document a view is of: one stored before the requests modelled here.
ViewedDoc == NumReqs * MaxCalls + 1

\* Faulty variant of DocumentId: the loader passes no document id either.
DocumentId_Null(q) == NoDoc

\* consumeQuota's documentId || null: the loader passes the viewed
\* document's id, the publish action passes none.
DocumentId(q) == IF q.kind = "publish" THEN NoDoc ELSE ViewedDoc

\* A document id no document is stored under.
MissingDoc == ViewedDoc + 1

\* The header text getClientIP returns for identity ip: a dotted address.
ZeroCode == 48

DotCode == 46

StarCode == 42

IpText(ip) == <<ZeroCode + ip, DotCode, ZeroCode + ip>>

\* ip.replace(/\./g, '*'): every dot becomes an asterisk, nothing else changes.
MaskIp(text) ==
    [i \in DOMAIN text |-> IF text[i] = DotCode THEN StarCode ELSE text[i]]

\* Faulty variant of LoaderDocument: a view without quota is not served.
LoaderDocument_Blocking(q) ==
    IF q.kind = "view" /\ q.result \in {"consumed", "quotaError"}
    THEN DocumentId(q)
    ELSE NoDoc

\* The document loader returns { document: result } once the document was
\* found, whatever its consumeQuota call returned or threw.
LoaderDocument(q) ==
    IF q.kind = "view" /\ q.result # "notFound" THEN DocumentId(q) ELSE NoDoc

\* The statistics endpoint's Response.json: ip masked, quota as
\* getUsageStats returned it, i.e. checkQuota's QuotaInfo with its ip field.
Body(q) ==
    [document |-> LoaderDocument(q),
     ip |-> IF q.result = "stats" THEN MaskIp(IpText(q.ip)) ELSE <<>>,
     quotaIp |-> IF q.result = "stats" THEN IpText(q.ip) ELSE <<>>]

\* The handler returns: its result, and the quota field of the result if any.
Return(q, result, quota) ==
    [q EXCEPT !.pc = "done", !.result = result, !.info = quota]

\* Request r moves on to q; when q has returned, its response is the last
\* one returned and its locals end with it.
Step(r, q) ==
    /\ req' = [req EXCEPT ![r] = IF q.pc = "done" THEN DoneReq ELSE q]
    /\ ret' = IF q.pc = "done"
              THEN [by |-> RequestId(r), kind |-> q.kind, ip |-> q.ip,
                    count |-> q.count, result |-> q.result, quota |-> q.info,
                    rejected |-> q.rejected, unsafe |-> q.unsafe,
                    refunds |-> q.refunds, stats |-> q.stats,
                    conflict |-> q.conflict, body |-> Body(q)]
              ELSE ret

\* Faulty variant of AfterCheck: the failure result carries the deducted remaining,
\* as the success result does.
AfterCheck_Deducted(q, info) ==
    IF q.kind = "home"
    THEN Return(q, "quota", info)
    ELSE IF q.kind = "stats"
    THEN [q EXCEPT !.pc = "us_select", !.t = -1, !.info = info]
    ELSE IF Insufficient(info, q.count)
    THEN Return(q, "insufficient",
                [info EXCEPT !.remaining = info.remaining - q.count])
    ELSE [q EXCEPT !.pc = "co_update", !.t = -1, !.info = info]

\* The caller's continuation once checkQuota has returned info:
\* the home loader returns it, getUsageStats goes on to its SELECT,
\* consumeQuota compares it with operationCount.
AfterCheck(q, info) ==
    IF q.kind = "home"
    THEN Return(q, "quota", info)
    ELSE IF q.kind = "stats"
    THEN [q EXCEPT !.pc = "us_select", !.t = -1, !.info = info]
    ELSE IF Insufficient(info, q.count)
    THEN Return(q, "insufficient", info)
    ELSE [q EXCEPT !.pc = "co_update", !.t = -1, !.info = info]

\* Faulty variant of AfterThrow: the publish action goes on to the limiter
\* although its consumeQuota returned success = false for a storage error.
AfterThrow_Proceed(q) ==
    IF q.kind = "home"
    THEN Return(q, "fault", NoInfo)
    ELSE IF q.kind = "stats"
    THEN Return(q, "statsError", NoInfo)
    ELSE IF q.kind = "publish"
    THEN [q EXCEPT !.pc = "rl_limit"]
    ELSE Return(q, "quotaError", NoInfo)

\* checkQuota rethrows a storage error; consumeQuota catches it and returns
\* "Failed to process quota operation", getUsageStats catches it and returns
\* null, the home loader lets it propagate.
AfterThrow(q) ==
    IF q.kind = "home"
    THEN Return(q, "fault", NoInfo)
    ELSE IF q.kind = "stats"
    THEN Return(q, "statsError", NoInfo)
    ELSE Return(q, "quotaError", NoInfo)

\* What consumeQuota's caller does with a success result.
AfterConsume(q) ==
    IF q.kind = "publish"
    THEN [q EXCEPT !.pc = "rl_limit"]
    ELSE Return(q, "consumed", [q.info EXCEPT !.remaining = newRemaining(q)])

\* A request arrives; the handler runs up to and including checkQuota's SELECT.
\* kind "home" is the home loader (checkQuota), "consume" a direct
\* consumeQuota call as the document loader makes it, "stats" a
\* getUsageStats call, "publish" the action.
Begin(r, kind, ip, count, ok) ==
    /\ req[r].pc = "idle"
    /\ (r > 1 => req[r - 1].pc # "idle")
    /\ LET q0 == [req[r] EXCEPT !.kind = kind, !.ip = ip, !.count = count,
                                !.t = now, !.pre = quotas[ip].remaining]
       IN Step(r, IF ~ok THEN AfterThrow(q0)
                  ELSE IF quotas[ip] = NoQuota
                  THEN [q0 EXCEPT !.pc = "cq_insert"]
                  ELSE IF WindowExpired(now, quotas[ip])
                  THEN [q0 EXCEPT !.pc = "cq_reset"]
                  ELSE AfterCheck(q0, CurrentInfo(quotas[ip])))
    /\ UNCHANGED <<quotas, operations, documents, now, calls, threw>>

\* The document loader up to and including checkQuota's SELECT: its SELECT
\* of the document (a failure or no row ends in 404 before any quota call),
\* then consumeQuota(ip, "view", 1, DB, id). Documents are never deleted
\* and neither id is ever inserted, so the document SELECT sees the same
\* at any earlier moment.
BeginView(r, ip, id, found, ok) ==
    IF found /\ id \in documents
    THEN Begin(r, "view", ip, 1, ok)
    ELSE /\ req[r].pc = "idle"
         /\ (r > 1 => req[r - 1].pc # "idle")
         /\ Step(r, Return([req[r] EXCEPT !.kind = "view", !.ip = ip,
                                          !.count = 1],
                           "notFound", NoInfo))
         /\ UNCHANGED <<quotas, operations, documents, now, calls, threw>>

\* Faulty variant of CqInsert: INSERT OR REPLACE, the create overwrites a
\* row another request has created by now.
CqInsert_Replace(r, ok) ==
    /\ req[r].pc = "cq_insert"
    /\ LET q == req[r]
       IN /\ quotas' = IF ok
                       THEN [quotas EXCEPT ![q.ip] =
                               [remaining |-> FREE_QUOTA, lastReset |-> q.t]]
                       ELSE quotas
          /\ Step(r, IF ok THEN AfterCheck(q, NewUserInfo) ELSE AfterThrow(q))
    /\ UNCHANGED <<operations, documents, now, calls, threw>>

\* checkQuota: INSERT INTO quotas for a first-time user. ip_address is the
\* primary key, so the INSERT fails when a row exists by now.
CqInsert(r, ok) ==
    /\ req[r].pc = "cq_insert"
    /\ LET q == req[r]
           inserted == ok /\ quotas[q.ip] = NoQuota
       IN /\ quotas' = IF inserted
                       THEN [quotas EXCEPT ![q.ip] =
                               [remaining |-> FREE_QUOTA, lastReset |-> q.t]]
                       ELSE quotas
          /\ Step(r, IF inserted THEN AfterCheck(q, NewUserInfo)
                     ELSE AfterThrow([q EXCEPT !.conflict =
                                                 quotas[q.ip] # NoQuota]))
    /\ UNCHANGED <<operations, documents, now, calls, threw>>

\* checkQuota: UPDATE quotas SET remaining_operations, last_reset after 24h.
CqReset(r, ok) ==
    /\ req[r].pc = "cq_reset"
    /\ LET q == req[r]
       IN /\ quotas' = IF ok /\ quotas[q.ip] # NoQuota
                       THEN [quotas EXCEPT ![q.ip] =
                               [remaining |-> FREE_QUOTA, lastReset |-> q.t]]
                       ELSE quotas
          /\ Step(r, IF ok THEN AfterCheck(q, ResetInfo) ELSE AfterThrow(q))
    /\ UNCHANGED <<operations, documents, now, calls, threw>>

\* Faulty variant of CoUpdate: the deduction is relative to the row and conditional,
\* UPDATE .. SET remaining_operations = remaining_operations - ? WHERE .. >= ?.
CoUpdate_Atomic(r, ok) ==
    /\ req[r].pc = "co_update"
    /\ LET q == req[r]
           enough == quotas[q.ip].remaining >= q.count
       IN /\ quotas' = IF ok /\ enough
                       THEN [quotas EXCEPT ![q.ip].remaining = @ - q.count]
                       ELSE quotas
          /\ Step(r, IF ok /\ enough THEN [q EXCEPT !.pc = "co_log"]
                     ELSE IF ok THEN Return(q, "insufficient", q.info)
                     ELSE Return(q, "quotaError", NoInfo))
    /\ UNCHANGED <<operations, documents, now, calls, threw>>

\* Faulty variant of CoUpdate: the log append comes first, the deduction is
\* not yet written when the request reaches its INSERT INTO operations.
CoUpdate_Deferred(r, ok) ==
    /\ req[r].pc = "co_update"
    /\ Step(r, IF ok THEN [req[r] EXCEPT !.pc = "co_log"]
               ELSE Return(req[r], "quotaError", NoInfo))
    /\ UNCHANGED <<quotas, operations, documents, now, calls, threw>>

\* consumeQuota: UPDATE quotas SET remaining_operations = newRemaining.
CoUpdate(r, ok) ==
    /\ req[r].pc = "co_update"
    /\ LET q == req[r]
       IN /\ quotas' = IF ok /\ quotas[q.ip] # NoQuota
                       THEN [quotas EXCEPT ![q.ip].remaining = newRemaining(q)]
                       ELSE quotas
          /\ Step(r, IF ok THEN [q EXCEPT !.pc = "co_log"]
                     ELSE Return(q, "quotaError", NoInfo))
    /\ UNCHANGED <<operations, documents, now, calls, threw>>

OperationType(q) == IF q.kind = "publish" THEN "publish" ELSE "view"

\* consumeQuota: INSERT INTO operations, then return success.
\* Field by stands for the row's id: it names the request that inserted it.
CoLog(r, ok) ==
    /\ req[r].pc = "co_log"
    /\ LET q == req[r]
       IN /\ operations' = IF ok
                           THEN operations \cup
                                  {[ip |-> q.ip, type |-> OperationType(q),
                                    count |-> q.count, doc |-> DocumentId(q),
                                    at |-> now, by |-> RequestId(r)]}
                           ELSE operations
          /\ Step(r, IF ok THEN AfterConsume(q)
                     ELSE Return(q, "quotaError", NoInfo))
    /\ UNCHANGED <<quotas, documents, now, calls, threw>>

\* -------------------------------------------------------- getUsageStats
HoursPerDay == 24

\* Timestamps as the store compares them, texts by their character codes;
\* a text is <<date, code of the separator, hour of the day>>.
\* created_at holds CURRENT_TIMESTAMP, 'YYYY-MM-DD HH:MM:SS'.
SpaceCode == 32

CURRENT_TIMESTAMP(h) == <<h \div HoursPerDay, SpaceCode, h % HoursPerDay>>

\* Date.toISOString(), 'YYYY-MM-DDTHH:MM:SS.sssZ'.
TCode == 84

toISOString(h) == <<h \div HoursPerDay, TCode, h % HoursPerDay>>

\* new Date(year, month, date): midnight of the day of `today`.
startOfDay(today) == (today \div HoursPerDay) * HoursPerDay

\* a >= b on texts (BINARY collation: the first differing code decides).
RECURSIVE TextGeq(_, _)
TextGeq(a, b) ==
    IF b = <<>> THEN TRUE
    ELSE IF a = <<>> THEN FALSE
    ELSE IF Head(a) # Head(b) THEN Head(a) > Head(b)
    ELSE TextGeq(Tail(a), Tail(b))

\* WHERE ip_address = ? AND created_at >= ?, bound to startOfDay's ISO text.
TodayRows(ip, today) ==
    {o \in operations :
        /\ o.ip = ip
        /\ TextGeq(CURRENT_TIMESTAMP(o.at), toISOString(startOfDay(today)))}

RECURSIVE SumCount(_)
SumCount(rows) ==
    IF rows = {} THEN 0
    ELSE LET o == CHOOSE x \in rows : TRUE
         IN o.count + SumCount(rows \ {o})

\* SUM(operation_count) .. GROUP BY operation_type: one total per type found.
total_count(rows, type) == SumCount({o \in rows : o.type = type})

RECURSIVE SumTotals(_, _)
SumTotals(rows, types) ==
    IF types = {} THEN 0
    ELSE LET type == CHOOSE x \in types : TRUE
         IN total_count(rows, type) + SumTotals(rows, types \ {type})

\* operations.results.reduce(sum + op.total_count, 0)
totalOperationsToday(rows) == SumTotals(rows, {o.type : o \in rows})

\* Math.round(num / den) for den > 0: the nearest integer, halves upwards.
MathRound(num, den) == (2 * num + den) \div (2 * den)

\* Math.round(((FREE_QUOTA - quota.remaining) / FREE_QUOTA) * 100)
usagePercentage(quota) ==
    MathRound((FREE_QUOTA - quota.remaining) * 100, FREE_QUOTA)

\* Faulty variant of UsSelect: reading the statistics is itself logged as an
\* operation.
UsSelect_Logged(r, ok) ==
    /\ req[r].pc = "us_select"
    /\ LET q == req[r]
           rows == TodayRows(q.ip, now)
       IN /\ operations' = IF ok
                           THEN operations \cup
                                  {[ip |-> q.ip, type |-> "stats", count |-> 1,
                                    doc |-> NoDoc, at |-> now,
                                    by |-> RequestId(r)]}
                           ELSE operations
          /\ Step(r, IF ok
                     THEN Return([q EXCEPT !.stats =
                                     [operationsToday |-> totalOperationsToday(rows),
                                      usagePercentage |-> usagePercentage(q.info)]],
                                 "stats", q.info)
                     ELSE Return(q, "statsError", NoInfo))
    /\ UNCHANGED <<quotas, documents, now, calls, threw>>

\* getUsageStats after its checkQuota: `today` is taken, the SELECT over
\* operations runs, the stats are returned; on a throw it returns null.
UsSelect(r, ok) ==
    /\ req[r].pc = "us_select"
    /\ LET q == req[r]
           rows == TodayRows(q.ip, now)
       IN Step(r, IF ok
                  THEN Return([q EXCEPT !.stats =
                                  [operationsToday |-> totalOperationsToday(rows),
                                   usagePercentage |-> usagePercentage(q.info)]],
                              "stats", q.info)
                  ELSE Return(q, "statsError", NoInfo))
    /\ UNCHANGED <<quotas, operations, documents, now, calls, threw>>

\* ------------------------------------------------------- publish action
\* 1.8 * 1024 * 1024 = 1887436.8; sizes are whole bytes.
maxSize == 1887436

\* Faulty variant of BeginInvalid: the size check comes after the deduction.
BeginInvalid_Charged(r, ip, contentSize) ==
    /\ req[r].pc = "idle"
    /\ (r > 1 => req[r - 1].pc # "idle")
    /\ contentSize = 0 \/ contentSize > maxSize
    /\ quotas' = IF quotas[ip] = NoQuota THEN quotas
                 ELSE [quotas EXCEPT ![ip].remaining = @ - 1]
    /\ Step(r, Return([req[r] EXCEPT !.kind = "publish", !.ip = ip],
                      IF contentSize = 0 THEN "contentRequired" ELSE "tooLarge",
                      NoInfo))
    /\ UNCHANGED <<operations, documents, now, calls, threw>>

\* The action's checks before any store access: missing content, size ceiling.
BeginInvalid(r, ip, contentSize) ==
    /\ req[r].pc = "idle"
    /\ (r > 1 => req[r - 1].pc # "idle")
    /\ contentSize = 0 \/ contentSize > maxSize
    /\ Step(r, Return([req[r] EXCEPT !.kind = "publish", !.ip = ip],
                      IF contentSize = 0 THEN "contentRequired" ELSE "tooLarge",
                      NoInfo))
    /\ UNCHANGED <<quotas, operations, documents, now, calls, threw>>

BeginPublish(r, ip, contentSize, ok) ==
    /\ contentSize > 0
    /\ contentSize <= maxSize
    /\ Begin(r, "publish", ip, 1, ok)

\* Faulty variant of Refund: the refund restores the whole daily quota.
Refund_ToLimit(ip) ==
    IF quotas[ip] = NoQuota THEN quotas
    ELSE [quotas EXCEPT ![ip].remaining = FREE_QUOTA]

\* UPDATE quotas SET remaining_operations = remaining_operations + 1.
Refund(ip) ==
    IF quotas[ip] = NoQuota THEN quotas
    ELSE [quotas EXCEPT ![ip].remaining = @ + 1]

Refunded(q) == [q EXCEPT !.refunds = @ + 1]

\* Faulty variant of RlLimit: a limiter that throws is taken for a rejection.
RlLimit_FailClosed(r, outcome) ==
    /\ req[r].pc = "rl_limit"
    /\ Step(r, [req[r] EXCEPT !.rejected = (outcome # "ok"),
                              !.pc = IF outcome # "ok" THEN "rl_refund"
                                     ELSE "mod"])
    /\ UNCHANGED <<quotas, operations, documents, now, calls>>

\* PUBLISH_RATE_LIMITER.limit(): outcome "ok", "reject" or "throw".
\* A thrown limiter error is caught and the action continues.
RlLimit(r, outcome) ==
    /\ req[r].pc = "rl_limit"
    /\ Step(r, [req[r] EXCEPT !.rejected = (outcome = "reject"),
                              !.pc = IF outcome = "reject" THEN "rl_refund"
                                     ELSE "mod"])
    /\ UNCHANGED <<quotas, operations, documents, now, calls>>

\* Faulty variant of RlRefund: the return after the refund is missing.
RlRefund_NoReturn(r, ok) ==
    /\ req[r].pc = "rl_refund"
    /\ quotas' = IF ok THEN Refund(req[r].ip) ELSE quotas
    /\ Step(r, IF ok THEN [Refunded(req[r]) EXCEPT !.pc = "mod"]
               ELSE [req[r] EXCEPT !.pc = "mod"])
    /\ UNCHANGED <<operations, documents, now, calls, threw>>

\* Refund after a rate-limit rejection. The UPDATE is inside the limiter's
\* try block: when it throws, the catch logs and the action continues.
RlRefund(r, ok) ==
    /\ req[r].pc = "rl_refund"
    /\ quotas' = IF ok THEN Refund(req[r].ip) ELSE quotas
    /\ Step(r, IF ok THEN Return(Refunded(req[r]), "rateLimited", NoInfo)
               ELSE [req[r] EXCEPT !.pc = "mod"])
    /\ UNCHANGED <<operations, documents, now, calls, threw>>

\* moderateContent(): the AI answers SAFE or UNSAFE, or fails and the
\* pattern-based basicContentCheck decides; it returns safe or unsafe.
moderateContent(ai, basicSafe) ==
    IF ai = "UNSAFE" THEN "unsafe"
    ELSE IF ai = "SAFE" THEN "safe"
    ELSE IF basicSafe THEN "safe" ELSE "unsafe"

Mod(r, ai, basicSafe) ==
    /\ req[r].pc = "mod"
    /\ LET m == moderateContent(ai, basicSafe)
       IN Step(r, [req[r] EXCEPT !.unsafe = (m = "unsafe"),
                                 !.pc = IF m = "unsafe" THEN "mod_refund"
                                        ELSE "doc_insert"])
    /\ UNCHANGED <<quotas, operations, documents, now, calls>>

\* Refund after blocked content. The UPDATE is inside the moderation try
\* block: when it throws, the catch logs and the action continues.
ModRefund(r, ok) ==
    /\ req[r].pc = "mod_refund"
    /\ quotas' = IF ok THEN Refund(req[r].ip) ELSE quotas
    /\ Step(r, IF ok THEN Return(Refunded(req[r]), "contentBlocked", NoInfo)
               ELSE [req[r] EXCEPT !.pc = "doc_insert"])
    /\ UNCHANGED <<operations, documents, now, calls, threw>>

\* INSERT INTO documents, under the id generateShortId() drew.
DocInsert(r, ok) ==
    /\ req[r].pc = "doc_insert"
    /\ documents' = IF ok THEN documents \cup {RequestId(r)} ELSE documents
    /\ Step(r, IF ok THEN [req[r] EXCEPT !.pc = "op_attach"]
               ELSE [req[r] EXCEPT !.pc = "save_refund"])
    /\ UNCHANGED <<quotas, operations, now, calls, threw>>

\* Rows the attaching UPDATE may pick: rows of ip with document_id NULL,
\* ORDER BY created_at DESC LIMIT 1 (any of the latest on a tie).
AttachCandidates(ip) ==
    {o \in operations :
        /\ o.ip = ip
        /\ o.doc = NoDoc
        /\ \A p \in operations :
              (p.ip = ip /\ p.doc = NoDoc) => p.at <= o.at}

\* Faulty variant of OpAttach: the UPDATE lacks document_id IS NULL and takes
\* the identity's most recent row whatever it holds.
OpAttach_Overwrite(r, ok) ==
    /\ req[r].pc = "op_attach"
    /\ LET q == req[r]
           latest == {o \in operations :
                        /\ o.ip = q.ip
                        /\ \A p \in operations : p.ip = q.ip => p.at <= o.at}
       IN IF ok
          THEN /\ IF latest = {}
                  THEN operations' = operations
                  ELSE \E o \in latest :
                          operations' = (operations \ {o}) \cup
                                           {[o EXCEPT !.doc = RequestId(r)]}
               /\ Step(r, Return(q, "success",
                                 [q.info EXCEPT !.remaining = newRemaining(q)]))
          ELSE /\ operations' = operations
               /\ Step(r, [q EXCEPT !.pc = "save_refund"])
    /\ UNCHANGED <<quotas, documents, now, calls, threw>>

\* UPDATE operations SET document_id, then return success; on a throw the
\* catch block refunds.
OpAttach(r, ok) ==
    /\ req[r].pc = "op_attach"
    /\ LET q == req[r]
       IN IF ok
          THEN /\ IF AttachCandidates(q.ip) = {}
                  THEN operations' = operations
                  ELSE \E o \in AttachCandidates(q.ip) :
                          operations' = (operations \ {o}) \cup
                                           {[o EXCEPT !.doc = RequestId(r)]}
               /\ Step(r, Return(q, "success",
                                 [q.info EXCEPT !.remaining = newRemaining(q)]))
          ELSE /\ operations' = operations
               /\ Step(r, [q EXCEPT !.pc = "save_refund"])
    /\ UNCHANGED <<quotas, documents, now, calls, threw>>

\* Faulty variant of SaveRefund: the save error is returned without the refund.
SaveRefund_NoRefund(r, ok) ==
    /\ req[r].pc = "save_refund"
    /\ Step(r, IF ok THEN Return(Refunded(req[r]), "saveError", NoInfo)
               ELSE Return(req[r], "fault", NoInfo))
    /\ UNCHANGED <<quotas, operations, documents, now, calls, threw>>

\* Refund in the catch block of the save; a throw here leaves the action.
SaveRefund(r, ok) ==
    /\ req[r].pc = "save_refund"
    /\ quotas' = IF ok THEN Refund(req[r].ip) ELSE quotas
    /\ Step(r, IF ok THEN Return(Refunded(req[r]), "saveError", NoInfo)
               ELSE Return(req[r], "fault", NoInfo))
    /\ UNCHANGED <<operations, documents, now, calls, threw>>

\* ---------------------------------------------------------------- clock
Tick ==
    /\ now + TickHours <= MaxNow
    /\ now' = now + TickHours
    /\ UNCHANGED <<quotas, operations, documents, req, ret, calls, threw>>

\* ------------------------------------------------------------ behaviours
ContentSizes == {0, 1, maxSize, maxSize + 1}

LimitOutcomes == {"ok", "reject", "throw"}

AiOutcomes == {"SAFE", "UNSAFE", "throw"}

InitRemaining == {0, 1}

\* No row yet, or a nearly used-up row whose window began 24 hours ago (due
\* for a reset) or one clock step ago; a full row comes by a create or reset.
InitQuotas ==
    {NoQuota} \cup
    [remaining : InitRemaining,
     lastReset : {StartHour - QUOTA_RESET_HOURS, StartHour - TickHours}]

Init ==
    /\ quotas \in [IPs -> InitQuotas]
    /\ operations = {}
    /\ documents = {ViewedDoc}
    /\ now = StartHour
    /\ req = [r \in Reqs |-> IdleReq]
    /\ ret = NoRet
    /\ calls = 0
    /\ threw = {}

Next ==
    \/ \E r \in Reqs, ip \in IPs, ok \in BOOLEAN :
          \/ Begin(r, "home", ip, 0, ok)
          \/ Begin(r, "stats", ip, 0, ok)
          \/ \E count \in 1..MaxCount : Begin(r, "consume", ip, count, ok)
          \/ \E id \in {ViewedDoc, MissingDoc}, found \in BOOLEAN :
                BeginView(r, ip, id, found, ok)
    \/ \E r \in Reqs, ip \in IPs, contentSize \in ContentSizes :
          \/ BeginInvalid(r, ip, contentSize)
          \/ \E ok \in BOOLEAN : BeginPublish(r, ip, contentSize, ok)
    \/ \E r \in Reqs, ok \in BOOLEAN : CqInsert(r, ok)
    \/ \E r \in Reqs, ok \in BOOLEAN : CqReset(r, ok)
    \/ \E r \in Reqs, ok \in BOOLEAN : CoUpdate(r, ok)
    \/ \E r \in Reqs, ok \in BOOLEAN : CoLog(r, ok)
    \/ \E r \in Reqs, ok \in BOOLEAN : UsSelect(r, ok)
    \/ \E r \in Reqs, outcome \in LimitOutcomes :
          RlLimit(r, outcome) /\ UNCHANGED threw
    \/ \E r \in Reqs, ok \in BOOLEAN : RlRefund(r, ok)
    \/ \E r \in Reqs, ai \in AiOutcomes, basicSafe \in BOOLEAN :
          Mod(r, ai, basicSafe) /\ UNCHANGED threw
    \/ \E r \in Reqs, ok \in BOOLEAN : ModRefund(r, ok)
    \/ \E r \in Reqs, ok \in BOOLEAN : DocInsert(r, ok)
    \/ \E r \in Reqs, ok \in BOOLEAN : OpAttach(r, ok)
    \/ \E r \in Reqs, ok \in BOOLEAN : SaveRefund(r, ok)
    \/ Tick

Spec == Init /\ [][Next]_vars

\* One client of a fresh identity calling consumeQuota(ip, "view", 1) again
\* and again inside one window, each call after the previous one returned,
\* every store operation succeeding.
SeqIP == NumIPs

Recycle(r) ==
    /\ req[r].pc = "done"
    /\ calls + 1 < MaxCalls
    /\ req' = [req EXCEPT ![r] = IdleReq]
    /\ calls' = calls + 1
    /\ UNCHANGED <<quotas, operations, documents, now, ret, threw>>

InitSeq ==
    /\ quotas = [ip \in IPs |-> NoQuota]
    /\ operations = {}
    /\ documents = {ViewedDoc}
    /\ now = StartHour
    /\ req = [r \in Reqs |-> IdleReq]
    /\ ret = NoRet
    /\ calls = 0
    /\ threw = {}

NextSeq ==
    \/ Begin(1, "consume", SeqIP, 1, TRUE)
    \/ CqInsert(1, TRUE)
    \/ CoUpdate(1, TRUE)
    \/ CoLog(1, TRUE)
    \/ Recycle(1)

SpecSeq == InitSeq /\ [][NextSeq]_vars

\* One publish request on its own, its collaborator calls observed: threw
\* records which of them threw. Every awaited store call settles (it
\* resolves or throws), so a request's store steps are weakly fair; nothing
\* in the action bounds the wait for the limiter or for the moderation.
PubReq == CHOOSE r \in Reqs : \A other \in Reqs : r <= other

Logged(what, thrown) == IF thrown THEN threw \cup {what} ELSE threw

StoreStep(r) ==
    \E ok \in BOOLEAN :
        \/ CqInsert(r, ok)
        \/ CqReset(r, ok)
        \/ CoUpdate(r, ok)
        \/ CoLog(r, ok)
        \/ RlRefund(r, ok)
        \/ ModRefund(r, ok)
        \/ DocInsert(r, ok)
        \/ OpAttach(r, ok)
        \/ SaveRefund(r, ok)

NextPub ==
    \/ \E ip \in IPs, contentSize \in ContentSizes :
          \/ BeginInvalid(PubReq, ip, contentSize)
          \/ \E ok \in BOOLEAN : BeginPublish(PubReq, ip, contentSize, ok)
    \/ StoreStep(PubReq)
    \/ \E outcome \in LimitOutcomes :
          /\ RlLimit(PubReq, outcome)
          /\ threw' = Logged("limiter", outcome = "throw")
    \/ \E ai \in AiOutcomes, basicSafe \in BOOLEAN :
          /\ Mod(PubReq, ai, basicSafe)
          /\ threw' = Logged("moderation", ai = "throw")
    \/ Tick

SpecPub == Init /\ [][NextPub]_vars /\ WF_vars(StoreStep(PubReq))

\* Two publish requests of one identity interleaving inside one window, the
\* identity's record created and full, every store operation succeeding;
\* the limiter and the moderation answer as they may.
InitRace ==
    /\ quotas = [ip \in IPs |->
                   [remaining |-> FREE_QUOTA, lastReset |-> StartHour]]
    /\ operations = {}
    /\ documents = {ViewedDoc}
    /\ now = StartHour
    /\ req = [r \in Reqs |-> IdleReq]
    /\ ret = NoRet
    /\ calls = 0
    /\ threw = {}

NextRace ==
    \E r \in Reqs :
        \/ BeginPublish(r, SeqIP, 1, TRUE)
        \/ CoUpdate(r, TRUE)
        \/ CoLog(r, TRUE)
        \/ \E outcome \in LimitOutcomes :
              RlLimit(r, outcome) /\ UNCHANGED threw
        \/ RlRefund(r, TRUE)
        \/ \E ai \in AiOutcomes, basicSafe \in BOOLEAN :
              Mod(r, ai, basicSafe) /\ UNCHANGED threw
        \/ ModRefund(r, TRUE)
        \/ DocInsert(r, TRUE)
        \/ OpAttach(r, TRUE)

SpecRace == InitRace /\ [][NextRace]_vars

\* ================================================================ claims
\* Request r returns in this step; ret' is then its response.
Returned(r) == req[r].pc # "done" /\ req'[r].pc = "done"

\* The step is r's, and a store operation or the request's input failed in it.
Failed(r) ==
    /\ Returned(r)
    /\ ret'.result \in {"fault", "quotaError", "statsError", "notFound",
                       "contentRequired", "tooLarge"}

\* Request r arrives in this step and its SELECT succeeds.
BeganOk(r) == req[r].pc = "idle" /\ req'[r].pc # "idle" /\ ~Failed(r)

\* After a step of r: its identity, and the QuotaInfo checkQuota gave it.
IpAfter(r) == IF req'[r].pc = "done" THEN ret'.ip ELSE req'[r].ip

InfoAfter(r) == IF req'[r].pc = "done" THEN ret'.quota ELSE req'[r].info

\* consumeQuota has returned success to request r, which is still running.
Consumed(r) ==
    req[r].pc \in {"rl_limit", "rl_refund", "mod", "mod_refund", "doc_insert",
                   "op_attach", "save_refund"}

HasRow(id) == \E o \in operations : o.by = id

\* C1: for every identity, in every reachable state, the stored
\* remaining_operations is within 0 .. dailyLimit.
C1_RemainingInRange ==
    \A ip \in IPs :
        quotas[ip] # NoQuota => quotas[ip].remaining \in 0..FREE_QUOTA

\* C2: consumeQuota's deduction writes the value computed from its own read,
\* whatever the row holds by then: a request that passed the check is never
\* stopped by a concurrent deduction, so two requests that read the same
\* remaining both succeed.
C2_StaleWriteWins ==
    [][\A r \in Reqs :
          (req[r].pc = "co_update" /\ req'[r].pc = "co_log")
             => quotas'[req[r].ip].remaining
                   = req[r].info.remaining - req[r].count]_vars

\* C2 witness: two publishes of one identity both read remaining = 1, both
\* had consumeQuota succeed and log a row, and the row holds 0.
C2_DoubleSpend ==
    \E r1, r2 \in Reqs :
        /\ r1 # r2
        /\ req[r1].ip = req[r2].ip
        /\ Consumed(r1) /\ Consumed(r2)
        /\ req[r1].pre = 1 /\ req[r2].pre = 1
        /\ req[r1].info.remaining = 1 /\ req[r2].info.remaining = 1
        /\ HasRow(RequestId(r1)) /\ HasRow(RequestId(r2))
        /\ quotas[req[r1].ip].remaining = 0

C4_WindowReset ==
    [][\A r \in Reqs :
          /\ (BeganOk(r) /\ quotas[IpAfter(r)] # NoQuota
                 /\ now - quotas[IpAfter(r)].lastReset >= QUOTA_RESET_HOURS)
                => /\ req'[r].pc = "cq_reset"
                   /\ req'[r].t = now
          /\ (req[r].pc = "cq_reset" /\ req'[r].pc # "cq_reset" /\ ~Failed(r))
                => /\ quotas'[req[r].ip] =
                         [remaining |-> FREE_QUOTA, lastReset |-> req[r].t]
                   /\ InfoAfter(r).remaining = FREE_QUOTA
                   /\ ~InfoAfter(r).isNewUser
          /\ (BeganOk(r) /\ quotas[IpAfter(r)] # NoQuota
                 /\ now - quotas[IpAfter(r)].lastReset < QUOTA_RESET_HOURS)
                => /\ req'[r].pc \notin {"cq_insert", "cq_reset"}
                   /\ InfoAfter(r).remaining = quotas[IpAfter(r)].remaining
                   /\ ~InfoAfter(r).isNewUser
                   /\ quotas' = quotas]_vars

\* C4 witness: the home loader's checkQuota has reset a used-up row.
C4_Witness ==
    /\ ret.kind = "home"
    /\ ret.result = "quota"
    /\ ret.quota = [remaining |-> FREE_QUOTA, isNewUser |-> FALSE]
    /\ quotas[ret.ip] = [remaining |-> FREE_QUOTA, lastReset |-> now]

\* C5: the first check of an identity without a row inserts the row
\* (dailyLimit, now) and returns remaining = dailyLimit, isNewUser = true;
\* the row stays, and no check of an identity that has a row returns
\* isNewUser = true.
C5_FirstCheckCreates ==
    [][/\ \A r \in Reqs :
            /\ (BeganOk(r) /\ quotas[IpAfter(r)] = NoQuota)
                  => /\ req'[r].pc = "cq_insert"
                     /\ req'[r].t = now
            /\ (req[r].pc = "cq_insert" /\ req'[r].pc # "cq_insert"
                   /\ ~Failed(r))
                  => /\ quotas[req[r].ip] = NoQuota
                     /\ quotas'[req[r].ip] =
                           [remaining |-> FREE_QUOTA, lastReset |-> req[r].t]
                     /\ InfoAfter(r).remaining = FREE_QUOTA
                     /\ InfoAfter(r).isNewUser
            /\ (req[r].pc \in {"idle", "cq_insert", "cq_reset"}
                   /\ req'[r].pc \notin {"idle", "cq_insert", "cq_reset"}
                   /\ InfoAfter(r).isNewUser)
                  => /\ req[r].pc = "cq_insert"
                     /\ quotas[req[r].ip] = NoQuota
       /\ \A ip \in IPs : quotas[ip] # NoQuota => quotas'[ip] # NoQuota]_vars

C5_Witness ==
    /\ ret.kind = "home"
    /\ ret.result = "quota"
    /\ ret.quota = [remaining |-> FREE_QUOTA, isNewUser |-> TRUE]
    /\ quotas[ret.ip].remaining = FREE_QUOTA

\* C6: a fresh identity's sequential consumeQuota calls of count 1 in one
\* window: the k-th call, k <= dailyLimit, succeeds and returns and stores
\* dailyLimit - k; every later call fails for insufficient quota with
\* remaining 0; never more than dailyLimit operations are charged.
SeqRows == {o \in operations : o.ip = SeqIP}

C6_SequentialBudget ==
    /\ Cardinality(SeqRows) <= FREE_QUOTA
    /\ req[1].pc = "done" =>
          LET k == calls + 1
          IN IF k <= FREE_QUOTA
             THEN /\ ret.result = "consumed"
                  /\ ret.quota.remaining = FREE_QUOTA - k
                  /\ quotas[SeqIP].remaining = FREE_QUOTA - k
                  /\ Cardinality(SeqRows) = k
             ELSE /\ ret.result = "insufficient"
                  /\ ret.quota.remaining = 0
                  /\ quotas[SeqIP].remaining = 0
                  /\ Cardinality(SeqRows) = FREE_QUOTA

\* C6 witness: the call after the dailyLimit-th has failed.
C6_Witness ==
    /\ req[1].pc = "done"
    /\ calls + 1 = FREE_QUOTA + 1
    /\ ret.result = "insufficient"
    /\ quotas[SeqIP].remaining = 0

C8_AtMostOneRefund ==
    /\ \A r \in Reqs :
          /\ req[r].refunds = 0
          /\ req[r].pc \in {"rl_refund", "mod_refund", "save_refund"}
                => HasRow(RequestId(r))
    /\ ret.refunds <= 1
    /\ ret.refunds = 1
          => /\ HasRow(ret.by)
             /\ ret.kind = "publish"
             /\ ret.result \in {"rateLimited", "contentBlocked", "saveError"}

\* C8 witness: the refund after a rate-limit rejection failed, the request
\* went on, was blocked by moderation and applied its one refund there.
C8_Witness ==
    /\ ret.rejected
    /\ ret.unsafe
    /\ ret.result = "contentBlocked"
    /\ ret.refunds = 1

\* C9: a request whose moderation reported unsafe never has its document
\* inserted and returns the content-blocked error.
C9_UnsafeNeverStored ==
    /\ \A r \in Reqs : req[r].unsafe => RequestId(r) \notin documents
    /\ ret.unsafe => (ret.result = "contentBlocked" /\ ret.by \notin documents)

\* C10: a request the rate limiter rejected goes no further than its refund:
\* moderation is not invoked, no document is inserted, and it returns the
\* rate-limit error.
C10_RejectedAborts ==
    /\ \A r \in Reqs :
          req[r].rejected
             => (req[r].pc = "rl_refund" /\ RequestId(r) \notin documents)
    /\ ret.rejected => (ret.result = "rateLimited" /\ ret.by \notin documents)

\* Request r takes a step.
Stepped(r) == req'[r] # req[r]

\* The handler request r runs, seen across a step of it.
KindAfter(r) == IF req'[r].pc = "done" THEN ret'.kind ELSE req'[r].kind

\* C11: a failure of a refund write does not alter the response: a request
\* that has come to one of the three refunds returns, with the step of that
\* refund and whether the UPDATE succeeds or not, the error of the stage
\* that failed; it neither goes on to a later stage nor ends in a fault.
C11_RefundFailureSwallowed ==
    [][\A r \in Reqs :
          /\ (req[r].pc = "rl_refund" /\ Stepped(r))
                => (Returned(r) /\ ret'.result = "rateLimited")
          /\ (req[r].pc = "mod_refund" /\ Stepped(r))
                => (Returned(r) /\ ret'.result = "contentBlocked")
          /\ (req[r].pc = "save_refund" /\ Stepped(r))
                => (Returned(r) /\ ret'.result = "saveError")]_vars

\* C12: when the INSERT of the document has failed in a publish whose
\* consumeQuota succeeded, the request's next step refunds exactly one unit
\* to the identity and returns the save error; its document is not stored.
C12_SaveFailureRefunds ==
    [][\A r \in Reqs :
          (req[r].pc = "save_refund" /\ RequestId(r) \notin documents
              /\ Stepped(r))
             => /\ Returned(r)
                /\ ret'.result = "saveError"
                /\ ret'.refunds = 1
                /\ quotas'[req[r].ip].remaining
                      = quotas[req[r].ip].remaining + 1
                /\ ret'.by \notin documents']_vars

\* C13: a publish whose content is missing or larger than maxSize returns
\* its error in its first step, before consumeQuota: quotas, operations and
\* documents are unchanged, neither the limiter nor the moderation has been
\* called, and it never enters consumeQuota; content of a size within
\* 1..maxSize is never rejected for its size.
C13_InvalidBeforeQuota ==
    [][\A r \in Reqs :
          /\ (Returned(r) /\ ret'.result \in {"contentRequired", "tooLarge"})
                => /\ req[r].pc = "idle"
                   /\ ret'.kind = "publish"
                   /\ UNCHANGED <<quotas, operations, documents>>
                   /\ ~HasRow(ret'.by)
                   /\ ~ret'.rejected /\ ~ret'.unsafe /\ ret'.refunds = 0
          /\ \A ip \in IPs, contentSize \in ContentSizes :
                IF contentSize = 0 \/ contentSize > maxSize
                THEN \A ok \in BOOLEAN : ~BeginPublish(r, ip, contentSize, ok)
                ELSE ~BeginInvalid(r, ip, contentSize)]_vars

\* C13 witness: an oversized publish of an identity with a row was rejected
\* and nothing was logged or stored.
C13_Witness ==
    /\ ret.kind = "publish"
    /\ ret.result = "tooLarge"
    /\ quotas[ret.ip] # NoQuota
    /\ operations = {}
    /\ documents = {ViewedDoc}

\* C14: a publish whose consumeQuota returns success = false returns that
\* error at once: the limiter and the moderation were not called, no
\* document is stored, no refund is applied and the step changes nothing in
\* the store; the request takes no further step, and the limiter is only
\* ever reached from a consumeQuota that logged its operation.
C14_FailedConsumeAborts ==
    [][\A r \in Reqs :
          /\ (Returned(r) /\ ret'.kind = "publish"
                 /\ ret'.result \in {"insufficient", "quotaError"})
                => /\ req[r].pc \in {"idle", "cq_insert", "cq_reset",
                                     "co_update", "co_log"}
                   /\ ~ret'.rejected /\ ~ret'.unsafe /\ ret'.refunds = 0
                   /\ ret'.by \notin documents'
                   /\ UNCHANGED <<quotas, operations, documents>>
          /\ req[r].pc = "done" => req'[r].pc = "done"
          /\ (req[r].pc # "rl_limit" /\ req'[r].pc = "rl_limit")
                => /\ req[r].pc = "co_log"
                   /\ \E o \in operations' : o.by = RequestId(r)]_vars

\* C14 witness: a publish deducted the last unit, failed to log it and
\* returned the storage error; nothing was refunded, logged or stored.
C14_Witness ==
    /\ ret.kind = "publish"
    /\ ret.result = "quotaError"
    /\ ret.refunds = 0
    /\ quotas[ret.ip].remaining = 0
    /\ operations = {}
    /\ documents = {ViewedDoc}

\* C15 as stated: a limiter call or a moderation (AI) call that fails never
\* leads to a refund or an error of its stage: the request is then neither
\* rejected nor found unsafe, and does not return the rate-limit or the
\* content-blocked error.
C15_FailsOpen ==
    /\ "limiter" \in threw
          => /\ ~req[PubReq].rejected /\ ~ret.rejected
             /\ ret.result # "rateLimited"
    /\ "moderation" \in threw
          => /\ ~req[PubReq].unsafe /\ ~ret.unsafe
             /\ ret.result # "contentBlocked"

\* C15 amended: a limiter call that throws moves the request on to the
\* moderation with no refund and no error; a moderation whose AI call fails
\* is decided by the pattern-based check: found safe, the request moves on to
\* persistence with no refund and no error, found unsafe it goes to the
\* refund of blocked content; and a request whose persistence succeeds
\* returns success, whichever call threw.
C15_FailsOpenUnlessFallbackBlocks ==
    [][/\ ("limiter" \notin threw /\ "limiter" \in threw')
            => /\ req[PubReq].pc = "rl_limit"
               /\ req'[PubReq].pc = "mod"
               /\ ~req'[PubReq].rejected
               /\ req'[PubReq].refunds = req[PubReq].refunds
               /\ quotas' = quotas
       /\ ("moderation" \notin threw /\ "moderation" \in threw')
            => /\ req[PubReq].pc = "mod"
               /\ IF req'[PubReq].unsafe
                  THEN req'[PubReq].pc = "mod_refund"
                  ELSE req'[PubReq].pc = "doc_insert"
               /\ req'[PubReq].refunds = req[PubReq].refunds
               /\ quotas' = quotas
       /\ (ret'.result = "rateLimited" /\ ret' # ret) => "limiter" \notin threw
       /\ (req[PubReq].pc = "op_attach" /\ Returned(PubReq))
            => /\ ret'.result = "success"
               /\ ret'.by \in documents']_vars

\* C15 witness: the limiter threw, the AI call failed, the pattern check
\* found nothing, persistence succeeded: success, and no refund.
C15_Witness ==
    /\ threw = {"limiter", "moderation"}
    /\ ret.result = "success"
    /\ ~ret.rejected /\ ~ret.unsafe
    /\ ret.refunds = 0
    /\ ret.by \in documents

\* C16: every publish request that waits for the rate limiter or for the
\* moderation eventually completes with a result.
C16_PublishCompletes ==
    \A r \in Reqs :
        (req[r].pc \in {"rl_limit", "mod"}) ~> (req[r].pc = "done")

\* C17: no row of operations is ever deleted; ip_address, operation_type,
\* operation_count, created_at (and the id) of a row never change; a row's
\* document_id changes only from NULL; ids stay unique; a refund leaves the
\* table as it is.
C17_LogAppendOnly ==
    [][/\ \A o \in operations :
             \E p \in operations' :
                /\ p.by = o.by
                /\ p.ip = o.ip /\ p.type = o.type
                /\ p.count = o.count /\ p.at = o.at
                /\ (o.doc # NoDoc => p.doc = o.doc)
       /\ \A o, p \in operations' : o.by = p.by => o = p
       /\ \A r \in Reqs :
             (req[r].pc \in {"rl_refund", "mod_refund", "save_refund"}
                 /\ Stepped(r))
                => operations' = operations]_vars

\* C17 witness: one publish was refunded and its row is there with no
\* document, another succeeded and a row carries its document.
C17_Witness ==
    /\ ret.refunds = 1
    /\ \E o, p \in operations :
          /\ o.by = ret.by /\ o.doc = NoDoc /\ o.type = "publish"
          /\ p.by # ret.by /\ p.doc \in documents /\ p.type = "publish"

\* C18: the document of a successful publish is attached to the operations
\* row that the same request's consumeQuota inserted, and to no other row.
C18_AttachesOwnRecord ==
    /\ \A o \in operations :
          (o.type = "publish" /\ o.doc # NoDoc) => o.doc = o.by
    /\ ret.result = "success"
          => \E o \in operations : o.by = ret.by /\ o.doc = ret.by

\* C19: getUsageStats returns operationsToday = the sum of operation_count
\* over the identity's rows created since the start of the current day, and
\* usagePercentage = the integer nearest to (dailyLimit - remaining) /
\* dailyLimit * 100 for the remaining its checkQuota returned.
C19_StatsOfToday ==
    [][\A r \in Reqs :
          (Returned(r) /\ ret'.result = "stats")
             => /\ ret'.stats.operationsToday =
                      SumCount({o \in operations :
                                   /\ o.ip = ret'.ip
                                   /\ o.at >= startOfDay(now)})
                /\ LET exact100 == (FREE_QUOTA - ret'.quota.remaining) * 100
                       shown100 == ret'.stats.usagePercentage * FREE_QUOTA
                   IN /\ 2 * (shown100 - exact100) <= FREE_QUOTA
                      /\ 2 * (exact100 - shown100) < FREE_QUOTA]_vars

\* C20 as stated: a step of getUsageStats leaves operations alone, keeps the
\* set of identities that have a quotas row, and leaves remaining_operations
\* of every row whose window has not expired.
C20_ReadOnlyButReset ==
    [][\A r \in Reqs :
          (Stepped(r) /\ KindAfter(r) = "stats")
             => /\ operations' = operations
                /\ \A ip \in IPs :
                      /\ (quotas[ip] = NoQuota) <=> (quotas'[ip] = NoQuota)
                      /\ (quotas[ip] # NoQuota
                             /\ ~WindowExpired(now, quotas[ip]))
                            => quotas'[ip].remaining = quotas[ip].remaining]_vars

\* C20 amended: getUsageStats never writes operations or documents and never
\* removes a quotas row; it writes quotas only in its checkQuota, the row of
\* its own identity: the INSERT when its SELECT found no row, the reset
\* UPDATE when its SELECT found an expired one, both to (dailyLimit, now of
\* the check); when its SELECT finds an unexpired row it writes nothing.
C20_WritesOnlyCreateOrReset ==
    [][\A r \in Reqs :
          (Stepped(r) /\ KindAfter(r) = "stats")
             => /\ UNCHANGED <<operations, documents>>
                /\ \A ip \in IPs :
                      /\ quotas[ip] # NoQuota => quotas'[ip] # NoQuota
                      /\ ip # IpAfter(r) => quotas'[ip] = quotas[ip]
                /\ req[r].pc \in {"idle", "us_select"} => quotas' = quotas
                /\ (req[r].pc = "idle" /\ ~Returned(r))
                      => IF quotas[IpAfter(r)] = NoQuota
                         THEN req'[r].pc = "cq_insert"
                         ELSE IF WindowExpired(now, quotas[IpAfter(r)])
                         THEN req'[r].pc = "cq_reset"
                         ELSE req'[r].pc = "us_select"
                /\ (req[r].pc \in {"cq_insert", "cq_reset"}
                       /\ quotas' # quotas)
                      => quotas'[req[r].ip] =
                            [remaining |-> FREE_QUOTA, lastReset |-> req[r].t]]_vars

\* C20 witness: getUsageStats of an identity without a row has returned,
\* and the row is there.
C20_Witness ==
    /\ ret.kind = "stats"
    /\ ret.result = "stats"
    /\ ret.quota = [remaining |-> FREE_QUOTA, isNewUser |-> TRUE]
    /\ quotas[ret.ip] = [remaining |-> FREE_QUOTA, lastReset |-> now]
    /\ operations = {}

\* C21: viewing an existing document never blocks on quota: once the loader
\* has found the document it returns it, whether its consumeQuota call
\* succeeded, found the quota insufficient or met a storage error; only a
\* document that was not found, or whose SELECT failed, ends in 404.
C21_ViewNeverBlocks ==
    [][\A r \in Reqs :
          Returned(r) /\ ret'.kind = "view"
          => IF ret'.result = "notFound"
             THEN req[r].pc = "idle" /\ ret'.body.document = NoDoc
             ELSE /\ ret'.result \in {"consumed", "insufficient", "quotaError"}
                  /\ ret'.body.document = ViewedDoc
                  /\ ViewedDoc \in documents']_vars

\* A view by an identity that has nothing left was served the document.
C21_Witness ==
    /\ ret.kind = "view"
    /\ ret.result = "insufficient"
    /\ ret.body.document = ViewedDoc
    /\ quotas[ret.ip].remaining = 0
    /\ operations = {}

\* Texts of the length of a modelled address over its digits and the dot:
\* like every IPv4 or IPv6 address, none holds an asterisk.
AddressTexts ==
    [DOMAIN IpText(NumIPs) -> {ZeroCode + ip : ip \in IPs} \cup {DotCode}]

\* C22: the statistics endpoint's response masks the caller's identity
\* non-reversibly: no field of the response holds the unmasked identity, and
\* two distinct identities exist that produce the same masked value.
C22_MaskedNonReversibly ==
    ret.result = "stats"
    => /\ ret.body.ip # IpText(ret.ip)
       /\ ret.body.quotaIp # IpText(ret.ip)
       /\ \E a, b \in AddressTexts : a # b /\ MaskIp(a) = MaskIp(b)

\* C23: consumeQuota writes its deduction before it appends to the log: a
\* request reaches the log append only by the step that wrote its
\* newRemaining into the QuotaRecord, every appended record is appended by a
\* request that has done so, and a failed append leaves the deduction in
\* place with no record (quota consumed without a log entry).
C23_DeductionBeforeLog ==
    [][\A r \in Reqs :
          /\ (req'[r].pc = "co_log" /\ req[r].pc # "co_log"
               => /\ req[r].pc = "co_update"
                  /\ quotas'[req[r].ip].remaining = newRemaining(req[r]))
          /\ (~HasRow(RequestId(r))
               /\ \E o \in operations' : o.by = RequestId(r))
               => req[r].pc = "co_log" /\ quotas' = quotas
          /\ (req[r].pc = "co_log" /\ Stepped(r) /\ operations' = operations
               => /\ quotas' = quotas
                  /\ Returned(r)
                  /\ ret'.result = "quotaError")]_vars

\* Two deductions are in the QuotaRecord of a fresh identity; the first
\* request logged its record, the second one's append failed.
C23_Witness ==
    /\ ret.result = "quotaError"
    /\ quotas[ret.ip] # NoQuota
    /\ quotas[ret.ip].remaining = FREE_QUOTA - 2
    /\ Cardinality(operations) = 1
    /\ ~HasRow(ret.by)

\* C24: there is at most one QuotaRecord per identity (the table is keyed by
\* ip_address) and it is never removed; a create that finds the record
\* already made by a concurrent first check fails, its request ends with an
\* error, and the stored record, deductions included, stays as it is.
C24_OneRecordPerIdentity ==
    [][/\ \A ip \in IPs : quotas[ip] # NoQuota => quotas'[ip] # NoQuota
       /\ \A r \in Reqs :
             req[r].pc = "cq_insert" /\ Stepped(r)
             /\ quotas[req[r].ip] # NoQuota
             => /\ quotas' = quotas
                /\ Returned(r)
                /\ ret'.conflict
                /\ ret'.result \in {"fault", "quotaError", "statsError"}]_vars

\* Two first checks of one unseen identity ran concurrently: one created the
\* record and its consume was applied and logged, then the other's create
\* failed and the deduction is still there.
C24_Witness ==
    /\ ret.conflict
    /\ quotas[ret.ip] = [remaining |-> FREE_QUOTA - 1, lastReset |-> StartHour]
    /\ Cardinality(operations) = 1
    /\ ~HasRow(ret.by)

\* The publishes that returned success: each stored one document.
Published == documents \ {ViewedDoc}

\* C25: with no store write failing, an identity is never overcharged by
\* interleaved publishes inside one window: once all requests have returned,
\* remaining >= dailyLimit - (number of requests that returned success).
C25_NeverOvercharged ==
    (\A r \in Reqs : req[r].pc = "done")
    => quotas[SeqIP].remaining >= FREE_QUOTA - Cardinality(Published)

\* Request r returns an error in this step and no refund write left the
\* action by a throw.
ErrorReturn(r) == Returned(r) /\ ret'.result \notin {"success", "fault"}

\* The remaining r's checkQuota established: what it returned (the full quota
\* after a create or reset); the stored value where it returned nothing.
Established(r) ==
    IF req[r].info # NoInfo THEN req[r].info.remaining
    ELSE IF ret'.quota # NoInfo THEN ret'.quota.remaining
    ELSE quotas[ret'.ip].remaining

\* C26: run on its own, a publish that returns an error is free provided no
\* refund write fails: the stored remaining after the request equals the
\* remaining its checkQuota established, for every error outcome.
C26_ErrorIsFree ==
    [][ErrorReturn(PubReq)
       => quotas'[ret'.ip].remaining = Established(PubReq)]_vars

\* C26 as the code has it: the same, except for the consumeQuota whose log
\* append failed after its deduction; that request returns the quota error
\* with its unit still deducted.
C26_ErrorIsFreeUnlessLogFailed ==
    [][ErrorReturn(PubReq)
       => quotas'[ret'.ip].remaining =
            IF req[PubReq].pc = "co_log"
            THEN Established(PubReq) - req[PubReq].count
            ELSE Established(PubReq)]_vars

\* A publish whose document INSERT failed returned the save error, and the
\* unit it had consumed from the identity's last one is back.
C26_Witness ==
    /\ ret.by = PubReq
    /\ ret.result = "saveError"
    /\ ret.refunds = 1
    /\ documents = {ViewedDoc}
    /\ quotas[ret.ip] = [remaining |-> 1, lastReset |-> StartHour - TickHours]
    /\ Cardinality(operations) = 1

\* C27: a publish refunds its unit only if no document was stored for it: a
\* request whose document INSERT succeeded neither reaches the refund of the
\* save's catch block nor returns the save error.
C27_RefundOnlyIfNotStored ==
    /\ \A r \in Reqs :
          req[r].pc = "save_refund" => RequestId(r) \notin documents
    /\ ret.result = "saveError" => ret.by \notin documents

\* C28: a document view is charged against the identity's daily budget, the
\* one publishes draw on: a view whose checkQuota returns remaining >= 1
\* goes on to deduct, writes that remaining minus 1, and appends one "view"
\* record of count 1 carrying the document's id; a view whose checkQuota
\* returns remaining 0 changes neither the QuotaRecord nor the log.
C28_ViewsCharged ==
    [][\A r \in Reqs :
          KindAfter(r) = "view" /\ Stepped(r)
          => /\ (req[r].info = NoInfo /\ InfoAfter(r) # NoInfo
                  => /\ operations' = operations
                     /\ IF InfoAfter(r).remaining >= 1
                        THEN req'[r].pc = "co_update"
                        ELSE /\ Returned(r)
                             /\ ret'.result = "insufficient"
                             /\ quotas' = quotas)
             /\ (req[r].pc = "co_update" /\ req'[r].pc = "co_log"
                  => /\ quotas'[req[r].ip].remaining
                          = req[r].info.remaining - 1
                     /\ operations' = operations)
             /\ (req[r].pc = "co_log" /\ Returned(r)
                  /\ ret'.result = "consumed"
                  => /\ ~HasRow(ret'.by)
                     /\ operations' = operations \cup
                           {[ip |-> ret'.ip, type |-> "view", count |-> 1,
                             doc |-> ViewedDoc, at |-> now, by |-> ret'.by]}
                     /\ quotas' = quotas)]_vars

\* A view took the identity's last unit and left its record in the log; the
\* publish that came next was refused for insufficient quota.
C28_Witness ==
    /\ ret.kind = "publish"
    /\ ret.result = "insufficient"
    /\ ret.quota.remaining = 0
    /\ quotas[ret.ip].remaining = 0
    /\ \E o \in operations :
          /\ operations = {o}
          /\ o.type = "view"
          /\ o.ip = ret.ip
          /\ o.doc = ViewedDoc
====
